---- MODULE Spec2Model ----
(***************************************************************************)
(* Text-to-SQL pipeline with RBAC (backend/api.py, backend/agents.py,      *)
(* backend/guardrails.py, backend/tools.py).                               *)
(*                                                                         *)
(* Texts (questions, SQL statements, agent outputs) are sequences of       *)
(* whitespace-separated tokens.  The regular expressions of the code are   *)
(* modelled by what they do on such token sequences.  Outputs of the LLM   *)
(* agents are untrusted text and are chosen nondeterministically.          *)
(***************************************************************************)
EXTENDS Naturals, Sequences, FiniteSets, TLC

VARIABLES
    question,        \* AskRequest.question, stripped
    allowed_tables,  \* user["allowed_tables"] -> PipelineState.allowed_tables
    pc,              \* position of the request in ask_question / Workflow
    content,         \* StepOutput.content of the last step (previous_step_content)
    success,         \* StepOutput.success of the last step
    sql_query,       \* PipelineState.sql_query
    generated,       \* response.content of the SQL Generator agent in this run
    security_text,   \* output of the SQL Security agent in this run
    gate,            \* verdict of SQLSecurityExecutor: [verdict, unauthorized]
    executed,        \* text handed to the DB Executor step / the query run by the tool
    trace,           \* names of the steps invoked so far in this run
    http,            \* response of ask_question: [status, response, sql_query]
    arg,             \* argument of the helper function called on its own
    result,          \* what that call returned
    runs,            \* the PipelineState and position of each of two concurrent runs
    users,           \* rows of the users table, by id: [role, allowed_tables]
    tokens,          \* payloads of the tokens issued so far
    reg              \* position and user_count of each registration in progress

vars == <<question, allowed_tables, pc, content, success, sql_query,
          generated, security_text, gate, executed, trace, http, arg, result,
          runs, users, tokens, reg>>

-----------------------------------------------------------------------------
(* Bounds *)

MaxQLen == 2     \* words in a question
MaxRefs == 2     \* table references in a generated FROM clause

-----------------------------------------------------------------------------
(* Values *)

None == <<"<None>">>          \* Python None for text-valued fields

ALL_TABLES == {"clients", "produits", "commandes"}

\* str.upper() / str.lower() on the tokens of the model
Upper(t) ==
    CASE t = "from"     -> "FROM"
      [] t = "select"   -> "SELECT"
      [] t = "created_at" -> "CREATED_AT"
      [] t = "join"     -> "JOIN"
      [] t = "drop"     -> "DROP"
      [] t = "rejetée"  -> "REJETÉE"
      [] t = "Rejetee"  -> "REJETEE"
      [] t = "clients"  -> "CLIENTS"
      [] t = "commandes" -> "COMMANDES"
      [] t = "produits" -> "PRODUITS"
      [] t = "ventes"   -> "VENTES"
      [] t = "Bonjour"  -> "BONJOUR"
      [] t = "météo"    -> "MÉTÉO"
      [] t = "Météo"    -> "MÉTÉO"
      [] t = "Jailbreak" -> "JAILBREAK"
      [] t = "combien"  -> "COMBIEN"
      [] t = "jailbreak" -> "JAILBREAK"
      [] t = "supprime" -> "SUPPRIME"
      [] OTHER          -> t

Lower(t) ==
    CASE t = "FROM"      -> "from"
      [] t = "JOIN"      -> "join"
      [] t = "SELECT"    -> "select"
      [] t = "DROP"      -> "drop"
      [] t = "COMMANDES" -> "commandes"
      [] t = "Bonjour"   -> "bonjour"
      [] t = "Météo"     -> "météo"
      [] t = "Jailbreak" -> "jailbreak"
      [] t = "REJETÉE"   -> "rejetée"
      [] t = "Rejetee"   -> "rejetee"
      [] OTHER           -> t

-----------------------------------------------------------------------------
(* guardrails.py : signature tables (a representative word of each group) *)
(* and the API-level classifier functions                                  *)

GREETING_PATTERNS == {"bonjour", "hello", "merci", "aide"}

OFF_TOPIC_PATTERNS == {"météo", "blague", "python", "sport"}

SQL_INJECTION_PATTERNS ==
    {"DROP", "DELETE", "UPDATE", "INSERT", "ALTER", "TRUNCATE", "--", ";", "supprime"}

PROMPT_INJECTION_PATTERNS == {"jailbreak", "bypass", "DAN"}

GREETING_RESPONSE == <<"GREETING_RESPONSE">>
OFF_TOPIC_RESPONSE == <<"OFF_TOPIC_RESPONSE">>
DESTRUCTIVE_RESPONSE == <<"DESTRUCTIVE_RESPONSE">>
PROMPT_INJECTION_RESPONSE == <<"PROMPT_INJECTION_RESPONSE">>

\* re.search(pattern, text.lower()) for some pattern
is_greeting(text) ==
    \E i \in DOMAIN text : Lower(text[i]) \in GREETING_PATTERNS

is_off_topic(text) ==
    \E i \in DOMAIN text : Lower(text[i]) \in OFF_TOPIC_PATTERNS

\* re.search(pattern, text, re.IGNORECASE) for some pattern
is_destructive(text) ==
    \E i \in DOMAIN text : \E p \in SQL_INJECTION_PATTERNS : Upper(text[i]) = Upper(p)

is_prompt_injection(text) ==
    \E i \in DOMAIN text : \E p \in PROMPT_INJECTION_PATTERNS : Upper(text[i]) = Upper(p)

\* TopicGuardrail.check searching the patterns in the text as given
TopicGuardrail_CaseSensitive(text) ==
    \E i \in DOMAIN text : text[i] \in OFF_TOPIC_PATTERNS

\* TopicGuardrail.check raises: re.search(pattern, input_content.lower())
TopicGuardrail(text) ==
    \E i \in DOMAIN text : Lower(text[i]) \in OFF_TOPIC_PATTERNS

\* SQLInjectionGuardrail.check raises: re.search(pattern, text, re.IGNORECASE)
SQLInjectionGuardrail(text) ==
    \E i \in DOMAIN text : \E p \in SQL_INJECTION_PATTERNS : Upper(text[i]) = Upper(p)

\* PromptInjectionGuardrail.check raises
PromptInjectionGuardrail(text) ==
    \E i \in DOMAIN text : \E p \in PROMPT_INJECTION_PATTERNS : Upper(text[i]) = Upper(p)

\* pre_hooks of intent_agent: the message of the first guardrail that raises,
\* or None when none raises
IntentPreHooks(text) ==
    IF TopicGuardrail(text) THEN OFF_TOPIC_RESPONSE
    ELSE IF SQLInjectionGuardrail(text) THEN DESTRUCTIVE_RESPONSE
    ELSE IF PromptInjectionGuardrail(text) THEN PROMPT_INJECTION_RESPONSE
    ELSE None

-----------------------------------------------------------------------------
(* agents.py : RBAC helpers *)

Quoted == "\"commandes\""       \* a quoted identifier
Qualified == "public.commandes"  \* a schema-qualified identifier

FenceSql == "<fence sql>"   \* three backquotes followed by sql
Fence == "<fence>"          \* three backquotes

\* the identifier captured by ([a-zA-Z_]\w*) at the start of a token,
\* or "" when the token does not start with a letter or underscore
IdentPrefix(t) ==
    CASE t \in {"clients", "commandes", "produits", "ventes", "COMMANDES"} -> t
      [] t = Qualified -> "public"
      [] t \in {"SELECT", "FROM", "JOIN", "from", "join", "REJETÉE", "rejetée",
                "REJETEE", "Rejetee", "raison"} -> t
      [] OTHER -> ""

\* extract_table_names looking after FROM only
extract_table_names_FromOnly(sql) ==
    { t \in ALL_TABLES :
        \E i \in 1..(Len(sql) - 1) :
            Upper(sql[i]) = "FROM" /\ Lower(IdentPrefix(sql[i + 1])) = t }

\* re.findall(r'\bFROM\s+([a-zA-Z_]\w*)', sql, re.IGNORECASE)
\* and the same for JOIN, lower-cased, intersected with ALL_TABLES
extract_table_names(sql) ==
    LET found(kw) == { Lower(IdentPrefix(sql[i + 1])) :
                         i \in { j \in 1..(Len(sql) - 1) :
                                   /\ Upper(sql[j]) = kw
                                   /\ IdentPrefix(sql[j + 1]) # "" } }
        tables == found("FROM") \cup found("JOIN")
    IN tables \cap ALL_TABLES

\* re.search of a markdown code fence (FenceSql or Fence, then the shortest text
\* up to the next Fence): the text between the fences, else the whole text
extract_sql(text) ==
    LET opens == { i \in DOMAIN text : text[i] \in {FenceSql, Fence} /\
                       \E j \in DOMAIN text : j > i /\ text[j] = Fence }
    IN IF opens = {} THEN text
       ELSE LET i == CHOOSE a \in opens : \A b \in opens : a <= b
                j == CHOOSE a \in (i + 1)..Len(text) :
                        /\ text[a] = Fence
                        /\ \A b \in (i + 1)..(a - 1) : text[b] # Fence
            IN SubSeq(text, i + 1, j - 1)

\* sorted(s) for a set of table names
RECURSIVE Sorted(_)
Sorted(s) ==
    IF s = {} THEN <<>>
    ELSE LET order == <<"clients", "commandes", "produits">>
             rank(t) == CHOOSE k \in 1..3 : order[k] = t
             m == CHOOSE t \in s : \A u \in s : rank(t) <= rank(u)
         IN <<m>> \o Sorted(s \ {m})

\* set(allowed_tables)
SetOf(list) == { list[i] : i \in DOMAIN list }

-----------------------------------------------------------------------------
(* Instructions built for the SQL generator and the SQL reviewer.  A text is
   the sequence of its lines; the names listed in the INTERDIT note are
   lines of their own. *)

TABLE_SCHEMAS ==
    [t \in {"clients", "produits", "commandes"} |->
        CASE t = "clients" ->
               "- clients (id, nom, prenom, email, ville, date_inscription, statut) → statut : UNIQUEMENT 'actif' ou 'inactif'"
          [] t = "produits" ->
               "- produits (id, nom, categorie, prix)"
          [] t = "commandes" ->
               "- commandes (id, client_id, produit_id, quantite, montant_total, date_commande, statut) → statut : UNIQUEMENT 'completee', 'en_cours' ou 'annulee'"]

\* the dict in insertion order
TABLE_RELATIONS ==
    << [table_pair |-> {"clients", "commandes"},  relation |-> "- commandes.client_id → clients.id"],
       [table_pair |-> {"produits", "commandes"}, relation |-> "- commandes.produit_id → produits.id"] >>

TablesHeading == "TABLES DISPONIBLES (il n'en existe AUCUNE autre) :"

RelationsHeading == "RELATIONS :"

NoRelation == "Aucune relation disponible."

DisallowedOpening == "INTERDIT : Tu n'as PAS accès aux tables suivantes :"

DisallowedClosing == "Ne génère JAMAIS de SQL les référençant."

AttentionHeading == "ATTENTION :"

AttentionLines ==
    << "- Il n'existe PAS de table ventes, details_commande, orders ou autre.",
       "- Les ventes/achats sont dans la table commandes.",
       "- Le chiffre d'affaires = SUM(montant_total) WHERE statut = 'completee'",
       "- N'ajoute PAS de conditions qui ne sont pas demandées.",
       "- Traduis EXACTEMENT la question en SQL, rien de plus." >>

RulesLines ==
    << "Règles strictes :",
       "- SELECT uniquement (jamais INSERT, UPDATE, DELETE, DROP)",
       "- Une seule requête",
       "- Utilise UNIQUEMENT les tables listées ci-dessus",
       "- PostgreSQL syntax uniquement",
       "- Utilise des alias lisibles (AS nom_colonne)",
       "- Utilise les JOINs corrects selon les relations ci-dessus",
       "Retourne UNIQUEMENT la requête SQL, sans explication.",
       "Format : la requête SQL brute, rien d'autre." >>

RECURSIVE MapSeq(_, _)
MapSeq(f, seq) ==
    IF seq = <<>> THEN <<>> ELSE <<f[Head(seq)]>> \o MapSeq(f, Tail(seq))

\* one descriptor per element of the list, in the order of the list
table_lines(allowed) ==
    MapSeq(TABLE_SCHEMAS, SelectSeq(allowed, LAMBDA t : t \in DOMAIN TABLE_SCHEMAS))

\* relations_section keeping a relation as soon as one of its tables is allowed
relations_section_AnyEndpoint(allowed) ==
    LET allowed_set == SetOf(allowed)
        kept == SelectSeq(TABLE_RELATIONS, LAMBDA r : r.table_pair \cap allowed_set # {})
        relation_lines == [i \in DOMAIN kept |-> kept[i].relation]
    IN IF relation_lines # <<>> THEN relation_lines ELSE <<NoRelation>>

relations_section(allowed) ==
    LET allowed_set == SetOf(allowed)
        kept == SelectSeq(TABLE_RELATIONS, LAMBDA r : r.table_pair \subseteq allowed_set)
        relation_lines == [i \in DOMAIN kept |-> kept[i].relation]
    IN IF relation_lines # <<>> THEN relation_lines ELSE <<NoRelation>>

\* disallowed_note written even when no table is left out
disallowed_note_Always(allowed) ==
    <<DisallowedOpening>> \o Sorted(ALL_TABLES \ SetOf(allowed)) \o <<DisallowedClosing>>

disallowed_note(allowed) ==
    LET disallowed == ALL_TABLES \ SetOf(allowed)
    IN IF disallowed # {}
          THEN <<DisallowedOpening>> \o Sorted(disallowed) \o <<DisallowedClosing>>
          ELSE <<>>

build_sql_generator_instructions(allowed) ==
    << "À partir de l'intention analysée et du contexte schéma fourni, génère UNE requête SQL PostgreSQL.",
       TablesHeading >>
    \o table_lines(allowed)
    \o <<RelationsHeading>>
    \o relations_section(allowed)
    \o disallowed_note(allowed)
    \o <<AttentionHeading>>
    \o AttentionLines
    \o RulesLines

AllowedHeading == "4. Les tables référencées sont UNIQUEMENT parmi :"

build_sql_security_instructions(allowed) ==
    << "Tu reçois une requête SQL. Vérifie :",
       "1. C'est un SELECT uniquement (pas de DROP, DELETE, UPDATE, INSERT, ALTER, TRUNCATE)",
       "2. Pas de sous-requêtes destructrices",
       "3. Pas de tentative d'injection SQL (commentaires --, ;, UNION non justifié)",
       AllowedHeading >>
    \o allowed
    \o << "5. Pas d'accès à des tables système (pg_*, information_schema)",
          "6. AUCUNE référence à des tables non autorisées",
          "Si la requête est SÛRE : retourne la requête SQL telle quelle, sans modification.",
          "Si la requête est DANGEREUSE ou référence des tables non autorisées : retourne REJETÉE : suivi de l'explication du problème." >>

-----------------------------------------------------------------------------

(* Inputs of a request and outputs of the external agents *)

RECURSIVE SeqsUpTo(_, _)
SeqsUpTo(S, n) ==
    IF n = 0 THEN {<<>>}
    ELSE LET shorter == SeqsUpTo(S, n - 1)
         IN shorter \cup { Append(q, w) : q \in { x \in shorter : Len(x) = n - 1 }, w \in S }

QWords == {"combien", "Bonjour", "météo", "drop", "jailbreak"}

Questions == SeqsUpTo(QWords, MaxQLen)

Blank == " "                       \* a run of white space
Filler992 == "<992 times x>"       \* a word of 992 letters
Filler993 == "<993 times x>"       \* a word of 993 letters

\* str.strip()
RECURSIVE Strip(_)
Strip(text) ==
    IF text = <<>> THEN <<>>
    ELSE IF Head(text) = Blank THEN Strip(Tail(text))
    ELSE IF text[Len(text)] = Blank THEN Strip(SubSeq(text, 1, Len(text) - 1))
    ELSE text

\* request.question of the requests around the limits of ask_question
AskQuestions ==
    { <<>>, <<Blank>>, <<Blank, Blank>>, <<"combien">>,
      <<Blank, "Bonjour", Blank>>,
      <<"combien", Filler992>>, <<"combien", Filler992, Blank>>,
      <<"Bonjour", Filler992>>,
      <<"combien", Filler993>>, <<"Bonjour", Filler993>>,
      <<"jailbreak", Filler992>> }

\* number of characters of a word / of a stripped question
WordLen(w) ==
    CASE w = "combien" -> 7 [] w = "Bonjour" -> 7 [] w = "météo" -> 5
      [] w = "drop" -> 4 [] w = "jailbreak" -> 9
      [] w = Filler992 -> 992 [] w = Filler993 -> 993 [] OTHER -> 1

RECURSIVE CharLen(_)
CharLen(text) ==
    IF text = <<>> THEN 0
    ELSE WordLen(Head(text)) + (IF Len(text) > 1 THEN 1 ELSE 0) + CharLen(Tail(text))

\* allowed_tables of the principal of the request
AllowedLists == { Sorted(S) : S \in SUBSET ALL_TABLES }

RefTokens == {"clients", "commandes", "produits", "ventes", "COMMANDES", Quoted, Qualified}

Connectors == {"JOIN", "join", ","}

RECURSIVE FromClauses(_)
FromClauses(n) ==
    IF n = 1 THEN { <<"FROM", r>> : r \in RefTokens }
    ELSE LET prev == FromClauses(n - 1)
         IN prev \cup { f \o <<c, r>> : f \in { x \in prev : Len(x) = 2 * (n - 1) },
                                        c \in Connectors, r \in RefTokens }

Statements == { <<"SELECT", "*">> \o f : f \in FromClauses(MaxRefs) }

SingleRefStatements == { <<"SELECT", "*">> \o f : f \in FromClauses(1) }

\* response.content of the SQL Generator agent: nothing, a statement, a
\* statement followed by a comment token, a statement in a markdown fence
GeneratorOutputs ==
    {<<>>} \cup Statements
           \cup { s \o <<"--">> : s \in SingleRefStatements }
           \cup { <<FenceSql>> \o s \o <<Fence>> : s \in SingleRefStatements }

\* response.content of the SQL Security agent for the text it receives:
\* the text unchanged, a refusal carrying the marker, or another statement
ReviewOutputs(text) ==
    {text} \cup { <<"REJETÉE", ":", "raison">>, <<"rejetée">>, <<"Rejetee", "raison">> }
           \cup { <<"SELECT", "*", "FROM", "commandes">> }

\* the table a reference token denotes for the database
TableOf(t) ==
    CASE t \in {"COMMANDES", Quoted, Qualified} -> "commandes"
      [] OTHER -> t

\* the tables a statement reads: every reference of its FROM clause
ReferencedTables(sql) ==
    { TableOf(sql[i + 1]) :
        i \in { j \in 1..(Len(sql) - 1) : Upper(sql[j]) \in {"FROM", "JOIN", ","} } }

-----------------------------------------------------------------------------
(* tools.py *)

DANGEROUS_KEYWORDS ==
    {"DROP", "DELETE", "UPDATE", "INSERT", "ALTER", "TRUNCATE", "CREATE", "GRANT"}

\* what the database does with a query: it cannot be reached, it refuses
\* the statement, it returns no row, it returns rows
DbResults == {"unreachable", "error", "empty", "rows"}

\* the keywords found in an upper-cased word (keyword in query_upper)
KeywordsIn(word) ==
    IF word \in DANGEROUS_KEYWORDS THEN {word}
    ELSE IF word = "CREATED_AT" THEN {"CREATE"}
    ELSE {}

NotSelect == <<"ERREUR : Seules les requêtes SELECT sont autorisées.">>

Forbidden == <<"ERREUR : Opération interdite. Seul SELECT est autorisé.">>

\* execute_sql_readonly without the test of the keywords
execute_sql_readonly_SelectOnly(query, db) ==
    LET query_upper == [i \in DOMAIN Strip(query) |-> Upper(Strip(query)[i])]
    IN IF query_upper = <<>> \/ query_upper[1] # "SELECT"
          THEN [returned |-> NotSelect, operations |-> <<>>]
       ELSE IF db = "unreachable"
          THEN [returned |-> <<"ERREUR SQL">>, operations |-> <<"connect">>]
       ELSE IF db = "error"
          THEN [returned |-> <<"ERREUR SQL">>,
                operations |-> <<"connect", "set_session(readonly=True)", "execute">>]
       ELSE [returned |-> IF db = "empty" THEN <<"Aucun résultat trouvé.">>
                                          ELSE <<"{columns, rows, row_count}">>,
             operations |-> <<"connect", "set_session(readonly=True)", "execute",
                              "fetchall", "close">>]

\* execute_sql_readonly(query), db being what the database does with the
\* query: the value returned and the operations made on the connection
execute_sql_readonly(query, db) ==
    LET query_upper == [i \in DOMAIN Strip(query) |-> Upper(Strip(query)[i])]
    IN IF query_upper = <<>> \/ query_upper[1] # "SELECT"
          THEN [returned |-> NotSelect, operations |-> <<>>]
       ELSE IF \E i \in DOMAIN query_upper : KeywordsIn(query_upper[i]) # {}
          THEN [returned |-> Forbidden, operations |-> <<>>]
       ELSE IF db = "unreachable"
          THEN [returned |-> <<"ERREUR SQL">>, operations |-> <<"connect">>]
       ELSE IF db = "error"
          THEN [returned |-> <<"ERREUR SQL">>,
                operations |-> <<"connect", "set_session(readonly=True)", "execute">>]
       ELSE [returned |-> IF db = "empty" THEN <<"Aucun résultat trouvé.">>
                                          ELSE <<"{columns, rows, row_count}">>,
             operations |-> <<"connect", "set_session(readonly=True)", "execute",
                              "fetchall", "close">>]

-----------------------------------------------------------------------------
(* agents.py : the workflow and its executors *)

\* the steps with DB Execution placed before SQL Security
PipelineSteps_ExecFirst ==
    << "Intent Analysis", "RAG Schema Retrieval", "SQL Generation",
       "DB Execution", "SQL Security", "Response Formatting" >>

\* steps=[...] of the Workflow built by run_pipeline, in order
PipelineSteps ==
    << "Intent Analysis", "RAG Schema Retrieval", "SQL Generation",
       "SQL Security", "DB Execution", "Response Formatting" >>

StepIndex(name) == CHOOSE k \in DOMAIN PipelineSteps : PipelineSteps[k] = name

\* "Stoppe le pipeline si rejeté": the Workflow ends the run at a step whose
\* StepOutput has success=False, and after the last step
WorkflowStops(name, ok) ==
    ~ok \/ StepIndex(name) = Len(PipelineSteps)

NoVerdict == [verdict |-> "none", by |-> "none", unauthorized |-> {}]

\* run_pipeline's return value as returned by ask_question (api.py 262-267)
AskResponse(result_content, sql) ==
    [ status    |-> 200,
      response  |-> IF result_content = <<>>
                        THEN <<"Désolé, je n'ai pas pu traiter votre question.">>
                        ELSE result_content,
      sql_query |-> sql ]

\* StepDone that runs SQL Generation again, once, after a refused step
StepDone_RetryOnRefusal(name, out_content, out_success, new_sql) ==
    /\ content' = out_content
    /\ success' = out_success
    /\ sql_query' = new_sql
    /\ trace' = Append(trace, name)
    /\ IF ~out_success /\ Len(trace) < 4
          THEN /\ pc' = "SQL Generation"
               /\ UNCHANGED http
          ELSE IF WorkflowStops(name, out_success)
          THEN /\ pc' = "done"
               /\ http' = AskResponse(out_content, new_sql)
          ELSE /\ pc' = PipelineSteps[StepIndex(name) + 1]
               /\ UNCHANGED http

\* the Workflow records the StepOutput of step name and goes on to the next
\* step, or ends the run: run_pipeline returns and ask_question answers
StepDone(name, out_content, out_success, new_sql) ==
    /\ content' = out_content
    /\ success' = out_success
    /\ sql_query' = new_sql
    /\ trace' = Append(trace, name)
    /\ IF WorkflowStops(name, out_success)
          THEN /\ pc' = "done"
               /\ http' = AskResponse(out_content, new_sql)
          ELSE /\ pc' = PipelineSteps[StepIndex(name) + 1]
               /\ UNCHANGED http

NoResponse == [status |-> 0, response |-> <<>>, sql_query |-> None]

Canned(msg) == [status |-> 200, response |-> msg, sql_query |-> None]

Init ==
    /\ question \in Questions
    /\ allowed_tables \in AllowedLists
    /\ pc = "start"
    /\ content = <<>>
    /\ success = TRUE
    /\ sql_query = None
    /\ generated = None
    /\ security_text = None
    /\ gate = NoVerdict
    /\ executed = None
    /\ trace = <<>>
    /\ http = NoResponse
    /\ arg = None
    /\ result = None
    /\ runs = <<>>
    /\ users = <<>>
    /\ tokens = {}
    /\ reg = <<>>

\* PreCheck without the destructive-intent test
PreCheck_NoDestructive(q) ==
    IF is_greeting(q) THEN GREETING_RESPONSE
    ELSE IF is_off_topic(q) THEN OFF_TOPIC_RESPONSE
    ELSE IF is_prompt_injection(q) THEN PROMPT_INJECTION_RESPONSE
    ELSE None

\* PreCheck testing destructive intent before off-topic
PreCheck_DestructiveFirst(q) ==
    IF is_greeting(q) THEN GREETING_RESPONSE
    ELSE IF is_destructive(q) THEN DESTRUCTIVE_RESPONSE
    ELSE IF is_off_topic(q) THEN OFF_TOPIC_RESPONSE
    ELSE IF is_prompt_injection(q) THEN PROMPT_INJECTION_RESPONSE
    ELSE None

\* the pre-checks of ask_question (api.py 246-256): the canned message
\* returned for the question, or None when the question goes to the pipeline
PreCheck(q) ==
    IF is_greeting(q) THEN GREETING_RESPONSE
    ELSE IF is_off_topic(q) THEN OFF_TOPIC_RESPONSE
    ELSE IF is_destructive(q) THEN DESTRUCTIVE_RESPONSE
    ELSE IF is_prompt_injection(q) THEN PROMPT_INJECTION_RESPONSE
    ELSE None

MaxQuestionChars == 1000

\* the length test rejecting a question of exactly the limit as well
TooLong_Inclusive(q) == CharLen(q) >= MaxQuestionChars

TooLong(q) == CharLen(q) > MaxQuestionChars

\* ask_question up to the call of run_pipeline: input validation, the
\* pre-checks, then PipelineState(allowed_tables) and pipeline.run(question)
Ask ==
    /\ pc = "start"
    /\ UNCHANGED <<arg, result, runs, users, tokens, reg>>
    /\ UNCHANGED <<question, allowed_tables, success, sql_query, generated,
                   security_text, gate, executed, trace>>
    /\ LET q == Strip(question)
       IN IF q = <<>>
             THEN /\ http' = [status |-> 400, response |-> <<"La question ne peut pas être vide.">>,
                              sql_query |-> None]
                  /\ pc' = "done" /\ UNCHANGED content
          ELSE IF TooLong(q)
             THEN /\ http' = [status |-> 400, response |-> <<"La question est trop longue.">>,
                              sql_query |-> None]
                  /\ pc' = "done" /\ UNCHANGED content
          ELSE IF PreCheck(q) # None
             THEN http' = Canned(PreCheck(q)) /\ pc' = "done" /\ UNCHANGED content
          ELSE /\ pc' = PipelineSteps[1]
               /\ content' = q
               /\ UNCHANGED http

\* IntentExecutor.__call__: the pre-hooks of intent_agent may raise
\* InputCheckError, which ask_question turns into a refusal
IntentExecutor ==
    /\ pc = "Intent Analysis"
    /\ UNCHANGED <<arg, result, runs, users, tokens, reg>>
    /\ UNCHANGED <<question, allowed_tables, generated, security_text, gate, executed>>
    /\ IF IntentPreHooks(content) # None
          THEN /\ http' = Canned(<<"Question refusée :">> \o IntentPreHooks(content))
               /\ pc' = "done"
               /\ UNCHANGED <<content, success, sql_query, trace>>
          ELSE StepDone("Intent Analysis", <<"intention">>, TRUE, sql_query)

\* RAGSchemaExecutor.__call__
RAGSchemaExecutor ==
    /\ pc = "RAG Schema Retrieval"
    /\ UNCHANGED <<arg, result, runs, users, tokens, reg>>
    /\ UNCHANGED <<question, allowed_tables, generated, security_text, gate, executed>>
    /\ StepDone("RAG Schema Retrieval", <<"schema">>, TRUE, sql_query)

\* SQLGeneratorExecutor.__call__
SQLGeneratorExecutor ==
    /\ pc = "SQL Generation"
    /\ UNCHANGED <<arg, result, runs, users, tokens, reg>>
    /\ UNCHANGED <<question, allowed_tables, security_text, gate, executed>>
    /\ \E out \in GeneratorOutputs :
          /\ generated' = out
          /\ StepDone("SQL Generation", out, TRUE, extract_sql(out))

\* the marker test without .upper()
HasRejectionMarker_CaseSensitive(text) ==
    \E i \in DOMAIN text : text[i] \in {"REJETÉE", "REJETEE"}

\* the rejection marker test on the review output
HasRejectionMarker(text) ==
    \E i \in DOMAIN text : Upper(text[i]) \in {"REJETÉE", "REJETEE"}

RejectedByReview == [verdict |-> "rejected", by |-> "review", unauthorized |-> {}]

RejectedForTables(unauthorized) ==
    [verdict |-> "rejected", by |-> "tables", unauthorized |-> unauthorized]

Accepted == [verdict |-> "accepted", by |-> "none", unauthorized |-> {}]

ReviewRefusal(st) == <<"Requête SQL rejetée pour raison de sécurité :">> \o st

TablesRefusal(unauthorized) ==
    <<"Accès refusé : vous n'avez pas la permission d'interroger les tables :">>
        \o Sorted(unauthorized)

\* SecurityOutcome whose refusals are returned without success=False
SecurityOutcome_NoFailure(st, sql, allowed) ==
    IF HasRejectionMarker(st)
        THEN [ content |-> ReviewRefusal(st), success |-> TRUE, sql |-> None,
               gate |-> RejectedByReview ]
    ELSE IF sql # None /\ sql # <<>> /\ extract_table_names(sql) \ SetOf(allowed) # {}
        THEN [ content |-> TablesRefusal(extract_table_names(sql) \ SetOf(allowed)),
               success |-> TRUE, sql |-> None,
               gate |-> RejectedForTables(extract_table_names(sql) \ SetOf(allowed)) ]
    ELSE [ content |-> st, success |-> TRUE, sql |-> sql, gate |-> Accepted ]

\* SecurityOutcome that does not clear state.sql_query on a table refusal
SecurityOutcome_KeepsSql(st, sql, allowed) ==
    IF HasRejectionMarker(st)
        THEN [ content |-> ReviewRefusal(st), success |-> FALSE, sql |-> None,
               gate |-> RejectedByReview ]
    ELSE IF sql # None /\ sql # <<>> /\ extract_table_names(sql) \ SetOf(allowed) # {}
        THEN [ content |-> TablesRefusal(extract_table_names(sql) \ SetOf(allowed)),
               success |-> FALSE, sql |-> sql,
               gate |-> RejectedForTables(extract_table_names(sql) \ SetOf(allowed)) ]
    ELSE [ content |-> st, success |-> TRUE, sql |-> sql, gate |-> Accepted ]

\* SQLSecurityExecutor.__call__ for the review output st:
\* the StepOutput, the new state.sql_query and the verdict
SecurityOutcome(st, sql, allowed) ==
    IF HasRejectionMarker(st)
        THEN [ content |-> ReviewRefusal(st), success |-> FALSE, sql |-> None,
               gate |-> RejectedByReview ]
    ELSE IF sql # None /\ sql # <<>> /\ extract_table_names(sql) \ SetOf(allowed) # {}
        THEN [ content |-> TablesRefusal(extract_table_names(sql) \ SetOf(allowed)),
               success |-> FALSE, sql |-> None,
               gate |-> RejectedForTables(extract_table_names(sql) \ SetOf(allowed)) ]
    ELSE [ content |-> st, success |-> TRUE, sql |-> sql, gate |-> Accepted ]

SQLSecurityExecutor ==
    /\ pc = "SQL Security"
    /\ UNCHANGED <<arg, result, runs, users, tokens, reg>>
    /\ UNCHANGED <<question, allowed_tables, generated, executed>>
    /\ \E st \in ReviewOutputs(content) :
          LET out == SecurityOutcome(st, sql_query, allowed_tables)
          IN /\ security_text' = st
             /\ gate' = out.gate
             /\ StepDone("SQL Security", out.content, out.success, out.sql)

\* DBExecutorExecutor.__call__: db_executor_agent runs the text it receives
\* through execute_sql_readonly and returns the raw result
DBExecutorExecutor ==
    /\ pc = "DB Execution"
    /\ UNCHANGED <<arg, result, runs, users, tokens, reg>>
    /\ UNCHANGED <<question, allowed_tables, generated, security_text, gate>>
    /\ executed' = content
    /\ \E db \in DbResults :
          StepDone("DB Execution", execute_sql_readonly(content, db).returned, TRUE, sql_query)

\* ResponseFormatterExecutor.__call__
ResponseFormatterExecutor ==
    /\ pc = "Response Formatting"
    /\ UNCHANGED <<arg, result, runs, users, tokens, reg>>
    /\ UNCHANGED <<question, allowed_tables, generated, security_text, gate, executed>>
    /\ StepDone("Response Formatting", <<"answer">>, TRUE, sql_query)

\* an agent call of the current step raises: run_pipeline propagates the
\* exception and ask_question answers 500 (api.py 272-273)
CollaboratorRaises ==
    /\ pc \in { PipelineSteps[k] : k \in DOMAIN PipelineSteps }
    /\ UNCHANGED <<arg, result, runs, users, tokens, reg>>
    /\ pc' = "done"
    /\ http' = [status |-> 500, response |-> <<"Erreur interne">>, sql_query |-> None]
    /\ UNCHANGED <<question, allowed_tables, content, success, sql_query,
                   generated, security_text, gate, executed, trace>>

Next ==
    \/ Ask
    \/ IntentExecutor
    \/ RAGSchemaExecutor
    \/ SQLGeneratorExecutor
    \/ SQLSecurityExecutor
    \/ DBExecutorExecutor
    \/ ResponseFormatterExecutor
    \/ CollaboratorRaises

Spec == Init /\ [][Next]_vars

\* the requests of an administrator with questions around the limits
AskInit ==
    /\ question \in AskQuestions
    /\ allowed_tables = Sorted(ALL_TABLES)
    /\ pc = "start"
    /\ content = <<>>
    /\ success = TRUE
    /\ sql_query = None
    /\ generated = None
    /\ security_text = None
    /\ gate = NoVerdict
    /\ executed = None
    /\ trace = <<>>
    /\ http = NoResponse
    /\ arg = None
    /\ result = None
    /\ runs = <<>>
    /\ users = <<>>
    /\ tokens = {}
    /\ reg = <<>>

AskSpec == AskInit /\ [][Next]_vars

\* every call of ask_question, of a step and of an agent returns or raises
FairSpec == Spec /\ WF_vars(Next)

-----------------------------------------------------------------------------
(* Two calls of run_pipeline in progress at the same time, for two
   principals; their steps are taken in any order *)

RunIds == {1, 2}

\* one PipelineState object held by the executors of every run
StateOf_Shared(r) == 1

\* the PipelineState object held by the executors of run r: run_pipeline
\* creates one for each call
StateOf(r) == r

Principals == AllowedLists \ {<<>>}

RunGeneratorOutputs == {<<>>} \cup SingleRefStatements

NotChecked == [sql |-> None, allowed |-> <<>>]

NotReturned == <<"<not returned>">>

RunsInit ==
    /\ \E a, b \in Principals :
          /\ a # b
          /\ runs = [ state |-> [o \in RunIds |-> [allowed_tables |-> <<>>, sql_query |-> None]],
                      run   |-> [r \in RunIds |->
                                    [ pc |-> "start",
                                      principal |-> IF r = 1 THEN a ELSE b,
                                      generated |-> None,
                                      checked |-> NotChecked,
                                      verdict |-> "none",
                                      returned |-> NotReturned ]] ]
    /\ question = <<>>
    /\ allowed_tables = <<>>
    /\ pc = "runs"
    /\ content = <<>>
    /\ success = TRUE
    /\ sql_query = None
    /\ generated = None
    /\ security_text = None
    /\ gate = NoVerdict
    /\ executed = None
    /\ trace = <<>>
    /\ http = NoResponse
    /\ arg = None
    /\ result = None
    /\ users = <<>>
    /\ tokens = {}
    /\ reg = <<>>

RunsUnchanged ==
    UNCHANGED <<question, allowed_tables, pc, content, success, sql_query, generated,
                security_text, gate, executed, trace, http, arg, result, users, tokens, reg>>

\* run_pipeline up to pipeline.run: state = PipelineState(allowed_tables, session_id)
RunPipeline(r) ==
    /\ runs.run[r].pc = "start"
    /\ runs' = [runs EXCEPT !.state[StateOf(r)] =
                                [allowed_tables |-> runs.run[r].principal, sql_query |-> None],
                            !.run[r].pc = PipelineSteps[1]]
    /\ RunsUnchanged

\* a step whose executor neither reads nor writes the state
RunPlainStep(r) ==
    /\ runs.run[r].pc \in {"Intent Analysis", "RAG Schema Retrieval",
                           "DB Execution", "Response Formatting"}
    /\ runs' = [runs EXCEPT !.run[r].pc =
                   IF WorkflowStops(runs.run[r].pc, TRUE)
                      THEN "return"
                      ELSE PipelineSteps[StepIndex(runs.run[r].pc) + 1]]
    /\ RunsUnchanged

\* SQLGeneratorExecutor.__call__ of run r
RunGenerate(r) ==
    /\ runs.run[r].pc = "SQL Generation"
    /\ \E out \in RunGeneratorOutputs :
          runs' = [runs EXCEPT !.state[StateOf(r)].sql_query = extract_sql(out),
                               !.run[r].generated = out,
                               !.run[r].pc = "SQL Security"]
    /\ RunsUnchanged

\* SQLSecurityExecutor.__call__ of run r
RunSecurity(r) ==
    /\ runs.run[r].pc = "SQL Security"
    /\ \E st \in {runs.run[r].generated, <<"REJETÉE", ":", "raison">>} :
          LET state == runs.state[StateOf(r)]
              out == SecurityOutcome(st, state.sql_query, state.allowed_tables)
          IN runs' = [runs EXCEPT !.state[StateOf(r)].sql_query = out.sql,
                                  !.run[r].checked = [sql |-> state.sql_query,
                                                      allowed |-> state.allowed_tables],
                                  !.run[r].verdict = out.gate.verdict,
                                  !.run[r].pc = IF WorkflowStops("SQL Security", out.success)
                                                   THEN "return" ELSE "DB Execution"]
    /\ RunsUnchanged

\* run_pipeline after pipeline.run: the sql_query of the returned dict
RunReturn(r) ==
    /\ runs.run[r].pc = "return"
    /\ runs' = [runs EXCEPT !.run[r].returned = runs.state[StateOf(r)].sql_query,
                            !.run[r].pc = "done"]
    /\ RunsUnchanged

RunsNext ==
    \E r \in RunIds :
        \/ RunPipeline(r)
        \/ RunPlainStep(r)
        \/ RunGenerate(r)
        \/ RunSecurity(r)
        \/ RunReturn(r)

RunsSpec == RunsInit /\ [][RunsNext]_vars

-----------------------------------------------------------------------------
(* auth.py and the admin routes of api.py : the users table, the tokens,
   and the requests that read or write them *)

MaxUsers == 2     \* registrations
MaxTokens == 3    \* tokens issued

Procs == 1..MaxUsers

\* ALL_TABLES of auth.py, a list
AUTH_ALL_TABLES == <<"clients", "produits", "commandes">>

VALID_TABLES == {"clients", "produits", "commandes"}

\* role and allowed_tables of the bodies of the admin requests
RoleValues == {"admin", "user", "root"}

TableValues == { <<"clients">>, <<>>, <<"ventes">> }

Status(n) == [status |-> n, response |-> <<>>, sql_query |-> None]

\* create_token: the payload (exp and iat left out)
create_token(user_id, role, allowed) ==
    [user_id |-> user_id, role |-> role, allowed_tables |-> allowed]

\* get_user_by_email: the row with the defaults for empty columns
get_user(u) ==
    [ id |-> u,
      role |-> users[u].role,
      allowed_tables |-> IF users[u].allowed_tables # <<>>
                            THEN users[u].allowed_tables ELSE AUTH_ALL_TABLES ]

\* get_current_user reading role and tables from the users table
get_current_user_FromStore(token) ==
    [ user_id |-> token.user_id,
      role |-> users[token.user_id].role,
      allowed_tables |-> IF users[token.user_id].role = "admin"
                            THEN AUTH_ALL_TABLES ELSE users[token.user_id].allowed_tables ]

\* get_current_user without the branch for the role admin
get_current_user_AsCarried(token) ==
    [ user_id |-> token.user_id, role |-> token.role,
      allowed_tables |-> token.allowed_tables ]

get_current_user(token) ==
    [ user_id |-> token.user_id,
      role |-> token.role,
      allowed_tables |-> IF token.role = "admin" THEN AUTH_ALL_TABLES
                                                 ELSE token.allowed_tables ]

Idle == [pc |-> "idle", user_count |-> 0, id |-> 0, role |-> "none"]

StoreInit ==
    /\ users = <<>>
    /\ tokens = {}
    /\ reg = [p \in Procs |-> Idle]
    /\ arg = [op |-> "none", token |-> create_token(0, "none", <<>>), target |-> 0,
              value |-> <<>>, wrote |-> FALSE]
    /\ http = NoResponse
    /\ allowed_tables = <<>>
    /\ runs = <<>>
    /\ question = <<>>
    /\ pc = "store"
    /\ content = <<>>
    /\ success = TRUE
    /\ sql_query = None
    /\ generated = None
    /\ security_text = None
    /\ gate = NoVerdict
    /\ executed = None
    /\ trace = <<>>
    /\ result = None

StoreUnchanged ==
    UNCHANGED <<runs, question, pc, content, success, sql_query, generated,
                security_text, gate, executed, trace, result>>

\* the request handled last, and whether it changed a row of users
Request(op, token, target, value) ==
    [op |-> op, token |-> token, target |-> target, value |-> value,
     wrote |-> \E u \in DOMAIN users : users'[u] # users[u]]

\* a request that passes no table list to run_pipeline
NoPipeline == allowed_tables' = <<>>

Anonymous == create_token(0, "none", <<>>)

\* register up to the first statement of create_user: the validations,
\* then SELECT COUNT(*) FROM users
RegisterCount(p) ==
    /\ reg[p].pc = "idle"
    /\ \E valid \in BOOLEAN :
          IF valid
             THEN /\ reg' = [reg EXCEPT ![p] = [@ EXCEPT !.pc = "counted",
                                                        !.user_count = Len(users)]]
                  /\ UNCHANGED http
             ELSE /\ reg' = [reg EXCEPT ![p].pc = "done"]
                  /\ http' = Status(400)
    /\ UNCHANGED <<users, tokens>>
    /\ arg' = Request("register", Anonymous, 0, <<>>)
    /\ NoPipeline
    /\ StoreUnchanged

\* the rest of create_user and of register: INSERT ... RETURNING id, commit,
\* create_token, as long as tokens are left to issue
RegisterInsert(p) ==
    /\ reg[p].pc = "counted"
    /\ Cardinality(tokens) < MaxTokens
    /\ LET role == IF reg[p].user_count = 0 THEN "admin" ELSE "user"
           user_id == Len(users) + 1
       IN /\ users' = Append(users, [role |-> role, allowed_tables |-> AUTH_ALL_TABLES])
          /\ tokens' = tokens \cup {create_token(user_id, role, AUTH_ALL_TABLES)}
          /\ reg' = [reg EXCEPT ![p] = [@ EXCEPT !.pc = "done", !.id = user_id,
                                                 !.role = role]]
    /\ arg' = Request("register", Anonymous, 0, <<>>)
    /\ http' = Status(200)
    /\ NoPipeline
    /\ StoreUnchanged

\* login with the email of user u and a password that is right or wrong,
\* as long as tokens are left to issue
Login(u) ==
    /\ u \in DOMAIN users
    /\ Cardinality(tokens) < MaxTokens
    /\ \E password_ok \in BOOLEAN :
          IF password_ok
             THEN /\ tokens' = tokens \cup
                       {create_token(u, get_user(u).role, get_user(u).allowed_tables)}
                  /\ http' = Status(200)
             ELSE /\ UNCHANGED tokens
                  /\ http' = Status(401)
    /\ UNCHANGED <<users, reg>>
    /\ arg' = Request("login", Anonymous, 0, <<>>)
    /\ NoPipeline
    /\ StoreUnchanged

\* ask_question up to the call of run_pipeline: the allowed tables passed
AuthenticateAsk(token) ==
    /\ token \in tokens
    /\ allowed_tables' = get_current_user(token).allowed_tables
    /\ UNCHANGED <<users, tokens, reg>>
    /\ arg' = Request("ask", token, 0, <<>>)
    /\ http' = Status(200)
    /\ StoreUnchanged

\* get_history and clear_history
History(token) ==
    /\ token \in tokens
    /\ UNCHANGED <<users, tokens, reg>>
    /\ arg' = Request("history", token, 0, <<>>)
    /\ http' = Status(200)
    /\ NoPipeline
    /\ StoreUnchanged

\* the checks of admin_update_role before the UPDATE: the status of the
\* refusal, or 0
RoleRequestError(admin, user_id, role) ==
    IF role \notin {"admin", "user"} THEN 400
    ELSE IF user_id = admin.user_id /\ role # "admin" THEN 400
    ELSE 0

\* the checks of admin_update_tables without the test of the empty list
TablesRequestError_AllowsEmpty(tables) ==
    IF SetOf(tables) \ VALID_TABLES # {} THEN 400 ELSE 0

\* the checks of admin_update_tables before the UPDATE
TablesRequestError(tables) ==
    IF SetOf(tables) \ VALID_TABLES # {} THEN 400
    ELSE IF tables = <<>> THEN 400
    ELSE 0

\* require_admin without the test of the role
require_admin_Anyone(user) == 0

\* require_admin: the status of the refusal, or 0
require_admin(user) == IF user.role # "admin" THEN 403 ELSE 0

AdminUpdateRole(token, user_id, role) ==
    /\ token \in tokens
    /\ LET admin == get_current_user(token)
       IN IF require_admin(admin) # 0
             THEN http' = Status(require_admin(admin)) /\ UNCHANGED users
          ELSE IF RoleRequestError(admin, user_id, role) # 0
             THEN http' = Status(RoleRequestError(admin, user_id, role)) /\ UNCHANGED users
          ELSE IF user_id \notin DOMAIN users
             THEN http' = Status(404) /\ UNCHANGED users
          ELSE /\ users' = [users EXCEPT ![user_id].role = role]
               /\ http' = Status(200)
    /\ arg' = Request("update_role", token, user_id, <<role>>)
    /\ UNCHANGED <<tokens, reg>>
    /\ NoPipeline
    /\ StoreUnchanged

AdminUpdateTables(token, user_id, tables) ==
    /\ token \in tokens
    /\ LET admin == get_current_user(token)
       IN IF require_admin(admin) # 0
             THEN http' = Status(require_admin(admin)) /\ UNCHANGED users
          ELSE IF TablesRequestError(tables) # 0
             THEN http' = Status(TablesRequestError(tables)) /\ UNCHANGED users
          ELSE IF user_id \notin DOMAIN users
             THEN http' = Status(404) /\ UNCHANGED users
          ELSE /\ users' = [users EXCEPT ![user_id].allowed_tables = tables]
               /\ http' = Status(200)
    /\ arg' = Request("update_tables", token, user_id, tables)
    /\ UNCHANGED <<tokens, reg>>
    /\ NoPipeline
    /\ StoreUnchanged

StoreNext ==
    \/ \E p \in Procs : RegisterCount(p)
    \/ \E p \in Procs : RegisterInsert(p)
    \/ \E u \in Procs : Login(u)
    \/ \E token \in tokens : AuthenticateAsk(token)
    \/ \E token \in tokens : History(token)
    \/ \E token \in tokens, u \in Procs, role \in RoleValues : AdminUpdateRole(token, u, role)
    \/ \E token \in tokens, u \in Procs, tables \in TableValues : AdminUpdateTables(token, u, tables)

StoreSpec == StoreInit /\ [][StoreNext]_vars

-----------------------------------------------------------------------------
(* guardrails.py : OutputSafetyGuardrail.  A text is a sequence of pieces:
   words of letters, pairs of digits, and single signs *)

MaxFragments == 2     \* fragments in a text given to the guardrail

Letters == {"jean", "ex", "fr", "c", "com"}

LetterLen(p) ==
    CASE p = "jean" -> 4
      [] p = "com"  -> 3
      [] p = "c"    -> 1
      [] OTHER      -> 2

DigitPairs == {"06", "12", "00"}

\* [a-zA-Z0-9._%+-] and [a-zA-Z0-9.-]
LocalChars == Letters \cup DigitPairs \cup {".", "-", "%"}
DomainChars == Letters \cup DigitPairs \cup {".", "-"}

\* \w
WordChars == Letters \cup DigitPairs

\* [\s.-]
Separators == {" ", ".", "-"}

\* the first index from i on whose piece is outside the class, or Len + 1
RECURSIVE RunEnd(_, _, _)
RunEnd(text, i, class) ==
    IF i > Len(text) \/ text[i] \notin class THEN i
    ELSE RunEnd(text, i + 1, class)

\* the number of letters from index i on, up to the first other piece
RECURSIVE LettersFrom(_, _)
LettersFrom(text, i) ==
    IF i > Len(text) \/ text[i] \notin Letters THEN 0
    ELSE LetterLen(text[i]) + LettersFrom(text, i + 1)

\* EMAIL_PATTERN.match at index s: the index of the last piece matched, or
\* 0.  The local part is the run of LocalChars from s, followed by "@";
\* the domain runs as far as DomainChars go and is cut at its last "."
\* that is followed by two letters or more.
EmailEnd(text, s) ==
    LET at == RunEnd(text, s, LocalChars)
        stop == RunEnd(text, at + 1, DomainChars)
        dots == { p \in (at + 2)..(stop - 1) :
                    text[p] = "." /\ LettersFrom(text, p + 1) >= 2 }
    IN IF at = s \/ at > Len(text) \/ text[at] # "@" \/ dots = {} THEN 0
       ELSE LET p == CHOOSE d \in dots : \A e \in dots : e <= d
            IN RunEnd(text, p + 1, Letters) - 1

\* k more pairs of digits from index i on, each after at most one
\* separator: the index of the last one, or 0
RECURSIVE PairsEnd(_, _, _)
PairsEnd(text, i, k) ==
    IF k = 0 THEN i - 1
    ELSE LET j == IF i <= Len(text) /\ text[i] \in Separators THEN i + 1 ELSE i
         IN IF j <= Len(text) /\ text[j] \in DigitPairs
               THEN PairsEnd(text, j + 1, k - 1)
               ELSE 0

\* PHONE_PATTERN.match at index s: the index of the last piece matched, or 0
PhoneEnd(text, s) ==
    LET e == PairsEnd(text, s + 1, 4)
    IN IF /\ text[s] = "06"
          /\ (s = 1 \/ text[s - 1] \notin WordChars)
          /\ e # 0
          /\ (e = Len(text) \/ text[e + 1] \notin WordChars)
          THEN e ELSE 0

EmailSearch(text) == \E s \in DOMAIN text : EmailEnd(text, s) # 0

PhoneSearch(text) == \E s \in DOMAIN text : PhoneEnd(text, s) # 0

EmailMask == <<"***", "@", "***", ".", "com">>     \* "***@***.com"

PhoneMask == <<"**", " ", "**", " ", "**", " ", "**", " ", "**">>

\* EMAIL_PATTERN.sub from index i on: the matches found from left to right
\* are replaced, the other pieces are kept
RECURSIVE EmailSub(_, _)
EmailSub(text, i) ==
    IF i > Len(text) THEN <<>>
    ELSE IF EmailEnd(text, i) # 0
        THEN EmailMask \o EmailSub(text, EmailEnd(text, i) + 1)
    ELSE <<text[i]>> \o EmailSub(text, i + 1)

RECURSIVE PhoneSub(_, _)
PhoneSub(text, i) ==
    IF i > Len(text) THEN <<>>
    ELSE IF PhoneEnd(text, i) # 0
        THEN PhoneMask \o PhoneSub(text, PhoneEnd(text, i) + 1)
    ELSE <<text[i]>> \o PhoneSub(text, i + 1)

\* OutputSafetyGuardrail.check: run_input.input_content afterwards
OutputSafetyGuardrail(text) ==
    [ raised |-> FALSE, input_content |-> PhoneSub(EmailSub(text, 1), 1) ]

\* pieces of results: addresses, numbers, and texts close to them
Fragments ==
    { <<"jean", "@", "ex", ".", "fr">>, <<"@", "ex", ".", "fr">>,
      <<"jean", "@", "ex">>, <<"jean", "@", "ex", ".", "c">>,
      <<"06", "12", "12", "12", "12">>, <<"06", " ", "12", ".", "12", "-", "12", "12">>,
      <<"00", "12", "12", "12", "12">>, <<"12">>, <<" ">>, <<"jean">> }

RECURSIVE Concat(_)
Concat(fs) == IF fs = <<>> THEN <<>> ELSE Head(fs) \o Concat(Tail(fs))

\* the texts response_formatter_agent receives
ResultTexts == { Concat(fs) : fs \in SeqsUpTo(Fragments, MaxFragments) }

-----------------------------------------------------------------------------

(* The helper functions of agents.py called on their own: one call of one
   function on one argument, which may be repeated on the same argument *)

MaxListLen == 3

\* the lists admin_update_tables stores: names of VALID_TABLES in any order,
\* repeated or not; and the empty list of a request without tables
TableLists == SeqsUpTo(ALL_TABLES, MaxListLen)

\* texts given to extract_table_names: the statements of the generator,
\* texts in lower case, and texts without a FROM or JOIN clause
ExtractInputs ==
    Statements \cup { <<>>, <<"SELECT", "*">>, <<"SELECT", "*", "FROM">>,
                       <<"REJETÉE", ":", "raison">>,
                       <<"SELECT", "*", "from", "clients">>,
                       <<"SELECT", "*", "from", "COMMANDES", "join", "produits">> }

\* queries given to execute_sql_readonly
Queries ==
    SingleRefStatements
    \cup { <<"SELECT", "*", "FROM", "clients", ";", k, "clients">> : k \in DANGEROUS_KEYWORDS }
    \cup { <<>>, <<"DROP", "TABLE", "clients">>, <<"REJETÉE", ":", "raison">>,
           <<Blank, "select", "*", "from", "clients", Blank>>,
           <<"SELECT", "*", "FROM", "clients", ";", "drop", "clients">>,
           <<"SELECT", "created_at", "FROM", "clients">> }

\* questions given to the classifiers, in lower case, capitalised or in
\* upper case
GuardrailInputs == SeqsUpTo(QWords \cup {"Météo", "DROP", "Jailbreak"}, MaxQLen)

CallArgs ==
    [fn : {"build_sql_generator_instructions", "build_sql_security_instructions"},
     value : TableLists]
    \cup [fn : {"guardrails"}, value : GuardrailInputs]
    \cup [fn : {"OutputSafetyGuardrail"}, value : ResultTexts]
    \cup [fn : {"extract_table_names"}, value : ExtractInputs]
    \cup [fn : {"execute_sql_readonly"}, value : [query : Queries, db : DbResults]]

CallInit ==
    /\ arg \in CallArgs
    /\ result = None
    /\ runs = <<>>
    /\ users = <<>>
    /\ tokens = {}
    /\ reg = <<>>
    /\ pc = "call"
    /\ question = <<>>
    /\ allowed_tables = <<>>
    /\ content = <<>>
    /\ success = TRUE
    /\ sql_query = None
    /\ generated = None
    /\ security_text = None
    /\ gate = NoVerdict
    /\ executed = None
    /\ trace = <<>>
    /\ http = NoResponse

Returns(value) ==
    /\ pc \in {"call", "returned"}
    /\ result' = value
    /\ pc' = IF pc = "call" THEN "returned" ELSE "returned again"
    /\ UNCHANGED <<arg, question, allowed_tables, content, success, sql_query,
                   generated, security_text, gate, executed, trace, http,
                   runs, users, tokens, reg>>

\* the call sorting the list it was given in place once the text is built
CallGeneratorInstructions_SortsInPlace ==
    /\ arg.fn = "build_sql_generator_instructions"
    /\ pc \in {"call", "returned"}
    /\ result' = build_sql_generator_instructions(arg.value)
    /\ arg' = [arg EXCEPT !.value = Sorted(SetOf(@))]
    /\ pc' = IF pc = "call" THEN "returned" ELSE "returned again"
    /\ UNCHANGED <<question, allowed_tables, content, success, sql_query,
                   generated, security_text, gate, executed, trace, http,
                   runs, users, tokens, reg>>

CallGeneratorInstructions ==
    /\ arg.fn = "build_sql_generator_instructions"
    /\ Returns(build_sql_generator_instructions(arg.value))

CallSecurityInstructions ==
    /\ arg.fn = "build_sql_security_instructions"
    /\ Returns(build_sql_security_instructions(arg.value))

CallExtractTableNames ==
    /\ arg.fn = "extract_table_names"
    /\ Returns(extract_table_names(arg.value))

CallExecuteSqlReadonly ==
    /\ arg.fn = "execute_sql_readonly"
    /\ Returns(execute_sql_readonly(arg.value.query, arg.value.db))

\* the pre-checks of ask_question and the pre_hooks of intent_agent on one text
CallGuardrails ==
    /\ arg.fn = "guardrails"
    /\ Returns([ is_off_topic |-> is_off_topic(arg.value),
                 is_destructive |-> is_destructive(arg.value),
                 is_prompt_injection |-> is_prompt_injection(arg.value),
                 TopicGuardrail |-> TopicGuardrail(arg.value),
                 SQLInjectionGuardrail |-> SQLInjectionGuardrail(arg.value),
                 PromptInjectionGuardrail |-> PromptInjectionGuardrail(arg.value),
                 PreCheck |-> PreCheck(arg.value),
                 IntentPreHooks |-> IntentPreHooks(arg.value) ])

\* the pre_hook of response_formatter_agent on the result of the execution
CallOutputSafetyGuardrail ==
    /\ arg.fn = "OutputSafetyGuardrail"
    /\ Returns(OutputSafetyGuardrail(arg.value))

CallNext ==
    \/ CallGuardrails
    \/ CallOutputSafetyGuardrail
    \/ CallGeneratorInstructions
    \/ CallSecurityInstructions
    \/ CallExtractTableNames
    \/ CallExecuteSqlReadonly

CallSpec == CallInit /\ [][CallNext]_vars

-----------------------------------------------------------------------------
(* Properties *)

\* the statement produced by the generator in this run
GeneratedSql == extract_sql(generated)

InTrace(name) == \E i \in DOMAIN trace : trace[i] = name

\* C1: whenever the security gate accepts and the run proceeds to the
\* execution stage, the SQL that reaches execution references no table
\* outside the principal's allowed tables and none outside the table universe.
\* (Stated for the runs in which the review returns the generated text
\* unchanged, for a principal with at least one allowed table, and for the
\* tables of the universe.)
C1_ExecutedSqlWithinAllowed ==
    (/\ executed # None
     /\ allowed_tables # <<>>
     /\ generated # <<>>
     /\ security_text = generated) =>
        (ReferencedTables(executed) \cap ALL_TABLES) \subseteq SetOf(allowed_tables)

C3_OtherTableRejected ==
    (/\ gate.verdict # "none"
     /\ gate.by # "review"
     /\ Cardinality(SetOf(allowed_tables)) = 1) =>
        \A B \in (ReferencedTables(GeneratedSql) \cap ALL_TABLES) \ SetOf(allowed_tables) :
            /\ B \in extract_table_names(GeneratedSql)
            /\ gate.verdict = "rejected"
            /\ B \in gate.unauthorized

\* C4: any generated SQL matching a sql-injection/destructive signature (such
\* as the comment token after a legitimate statement) ends in Rejected,
\* whatever tables it references and whatever the external review answers.
\* (Stated for the runs in which the review returns the generated text
\* unchanged and the statement reads allowed tables only.)
C4_InjectionSqlRejected ==
    (/\ gate.verdict # "none"
     /\ security_text = generated
     /\ ReferencedTables(GeneratedSql) \subseteq SetOf(allowed_tables)
     /\ is_destructive(GeneratedSql))
        => gate.verdict = "rejected"

Priority == <<"greeting", "off-topic", "destructive-intent", "prompt-injection">>

Matches(category, q) ==
    CASE category = "greeting"           -> is_greeting(q)
      [] category = "off-topic"          -> is_off_topic(q)
      [] category = "destructive-intent" -> is_destructive(q)
      [] category = "prompt-injection"   -> is_prompt_injection(q)

Message(category) ==
    CASE category = "greeting"           -> GREETING_RESPONSE
      [] category = "off-topic"          -> OFF_TOPIC_RESPONSE
      [] category = "destructive-intent" -> DESTRUCTIVE_RESPONSE
      [] category = "prompt-injection"   -> PROMPT_INJECTION_RESPONSE

\* C5: the pre-check tests the categories in the order greeting, off-topic,
\* destructive-intent, prompt-injection, and a question matching several
\* categories is answered with the canned message of the first that matches.
C5_FirstCategoryWins ==
    (pc = "done" /\ question # <<>> /\ CharLen(question) <= 1000) =>
        \A k \in DOMAIN Priority :
            (/\ Matches(Priority[k], question)
             /\ \A j \in 1..(k - 1) : ~Matches(Priority[j], question))
            => (http.status = 200 /\ http.response = Message(Priority[k]))

C5_Witness ==
    /\ pc = "done"
    /\ is_off_topic(question) /\ is_destructive(question) /\ ~is_greeting(question)
    /\ http.response = OFF_TOPIC_RESPONSE

MatchesPreCheck(q) ==
    \E k \in DOMAIN Priority : Matches(Priority[k], q)

\* C6: a question matching a pre-check category is answered by a rejection
\* without the pipeline being started: no agent and no execution is called
\* for the request, and the response carries no SQL.
C6_PreCheckShortCircuits ==
    (question # <<>> /\ MatchesPreCheck(question)) =>
        /\ pc \in {"start", "done"}
        /\ trace = <<>>
        /\ generated = None
        /\ executed = None
        /\ pc = "done" => (http.status = 200 /\ http.sql_query = None)

C6_Witness ==
    /\ pc = "done"
    /\ is_destructive(question)
    /\ ~is_greeting(question) /\ ~is_off_topic(question)
    /\ http.response = DESTRUCTIVE_RESPONSE
    /\ trace = <<>>

C8_EmptyAllowedFailsFast ==
    allowed_tables = <<>> => ~InTrace("SQL Generation")

MarkerSpellings ==
    {"REJETÉE", "rejetée", "Rejetée", "REJETEE", "rejetee", "Rejetee"}

\* C9: whenever the review output contains the rejection marker, in any
\* letter case, the verdict is Rejected and the run's SQL is cleared,
\* whatever the table check would have concluded.
C9_ReviewMarkerRejects ==
    (security_text # None /\ \E i \in DOMAIN security_text : security_text[i] \in MarkerSpellings) =>
        /\ gate.verdict = "rejected"
        /\ gate.by = "review"
        /\ sql_query = None
        /\ http.sql_query = None

C9_Witness ==
    /\ security_text = <<"rejetée">>
    /\ GeneratedSql # <<>>
    /\ extract_table_names(GeneratedSql) \subseteq SetOf(allowed_tables)
    /\ gate.verdict = "rejected"
    /\ sql_query = None

StageOrder ==
    << "Intent Analysis", "RAG Schema Retrieval", "SQL Generation",
       "SQL Security", "DB Execution", "Response Formatting" >>

\* C10: within a run the stages execute one after the other in the order
\* intent, schema retrieval, SQL generation, security gate, execution,
\* response formatting, and no stage runs more than once.
C10_StagesInOrder ==
    /\ Len(trace) <= Len(StageOrder)
    /\ trace = SubSeq(StageOrder, 1, Len(trace))
    /\ pc \notin {"start", "done"} => pc = StageOrder[Len(trace) + 1]

C10_Witness ==
    /\ pc = "done"
    /\ trace = StageOrder
    /\ http.status = 200

\* the state of the gate of spec 4.4 as the run shows it; the post-check and
\* the table check are both inside the SQL Security step
GateState ==
    IF gate.verdict = "accepted" THEN "Accepted"
    ELSE IF gate.verdict = "rejected" THEN "Rejected"
    ELSE IF pc = "done" THEN "Ended"
    ELSE IF pc = "start" THEN "Start"
    ELSE IF generated = None THEN "PreChecked"
    ELSE "Generated"

GateRank(g) ==
    CASE g = "Start" -> 0 [] g = "PreChecked" -> 1 [] g = "Generated" -> 2 [] OTHER -> 3

\* the terminal outcomes the finished request falls under
Outcomes ==
    { o \in {"input error", "pre-check rejection", "gate rejection",
             "accepted answer", "internal error"} :
        CASE o = "input error"         -> http.status = 400
          [] o = "pre-check rejection" -> http.status = 200 /\ gate.verdict = "none"
          [] o = "gate rejection"      -> http.status = 200 /\ gate.verdict = "rejected"
          [] o = "accepted answer"     -> http.status = 200 /\ gate.verdict = "accepted"
          [] o = "internal error"      -> http.status = 500 }

GateMovesForward ==
    /\ GateRank(GateState') >= GateRank(GateState)
    /\ GateRank(GateState) = 3 => GateState' = GateState
    /\ GateState = "Start" => GateState' \in {"Start", "PreChecked", "Ended"}
    /\ (GateState' = "Accepted" /\ GateState # "Accepted") =>
          /\ GateState = "Generated"
          /\ pc = "SQL Security"
          /\ \A i \in DOMAIN security_text' : security_text'[i] \notin MarkerSpellings
    /\ pc = "done" => (pc' = "done" /\ http' = http)

\* C11: provided every external call returns or raises, every request reaches
\* exactly one terminal outcome (input error, pre-check rejection, gate
\* rejection, accepted answer or internal error); the gate only moves forward
\* through Start, PreChecked, Generated and the post-check, and Accepted is
\* only reached from the post-check of the SQL Security step.
C11_OneTerminalOutcome ==
    /\ <>(pc = "done")
    /\ [](pc = "done" => Cardinality(Outcomes) = 1)
    /\ [](pc # "done" => http.status = 0)
    /\ [][GateMovesForward]_vars

C11_Witness ==
    /\ pc = "done"
    /\ Outcomes = {"accepted answer"}
    /\ trace = StageOrder

\* the first position of a line in a text
IndexOf(text, line) ==
    CHOOSE i \in DOMAIN text : text[i] = line /\ \A j \in 1..(i - 1) : text[j] # line

\* the lines of a text between two headings
Between(text, from, to) == SubSeq(text, IndexOf(text, from) + 1, IndexOf(text, to) - 1)

TableSection(text) == Between(text, TablesHeading, RelationsHeading)

BuiltGeneratorInstructions ==
    pc = "returned" /\ arg.fn = "build_sql_generator_instructions"

\* C12: the table descriptors of the generator instructions are exactly
\* those of the universe tables in the allowed list, each once, in an
\* order that does not depend on the order or repetition of the list.
C12_TablesCanonical ==
    BuiltGeneratorInstructions =>
        LET emitted == TableSection(result)
            allowed_set == ALL_TABLES \cap SetOf(arg.value)
        IN /\ SetOf(emitted) = { TABLE_SCHEMAS[t] : t \in allowed_set }
           /\ Len(emitted) = Cardinality(allowed_set)
           /\ \A other \in TableLists :
                 SetOf(other) = SetOf(arg.value) =>
                    TableSection(build_sql_generator_instructions(other)) = emitted

HasLine(text, line) == \E i \in DOMAIN text : text[i] = line

\* the lines under the RELATIONS heading, up to the INTERDIT note or the
\* ATTENTION heading
RelationSection(text) ==
    Between(text, RelationsHeading,
            IF HasLine(text, DisallowedOpening) THEN DisallowedOpening ELSE AttentionHeading)

\* C13: a relation line is in the generator instructions if and only if
\* both tables of the relation are allowed, and when no relation is left
\* the section says that none is available.
C13_RelationsBothEndpoints ==
    BuiltGeneratorInstructions =>
        LET emitted == RelationSection(result)
            allowed_set == SetOf(arg.value)
        IN /\ \A k \in DOMAIN TABLE_RELATIONS :
                 HasLine(emitted, TABLE_RELATIONS[k].relation)
                    <=> TABLE_RELATIONS[k].table_pair \subseteq allowed_set
           /\ (\A k \in DOMAIN TABLE_RELATIONS :
                 ~(TABLE_RELATIONS[k].table_pair \subseteq allowed_set))
                 <=> emitted = <<NoRelation>>

C13_Witness ==
    /\ BuiltGeneratorInstructions
    /\ SetOf(arg.value) = {"clients", "commandes"}
    /\ RelationSection(result) = <<"- commandes.client_id → clients.id">>

\* the names listed by the INTERDIT note of a text
ForbiddenList(text) ==
    IF HasLine(text, DisallowedOpening)
        THEN Between(text, DisallowedOpening, DisallowedClosing)
        ELSE <<>>

\* C14: the tables named as forbidden in the generator instructions are
\* exactly the universe tables that are not allowed, and the negative
\* instruction is absent exactly when the allowed list covers the universe.
C14_ForbiddenIsComplement ==
    BuiltGeneratorInstructions =>
        /\ SetOf(ForbiddenList(result)) = ALL_TABLES \ SetOf(arg.value)
        /\ HasLine(result, DisallowedOpening) <=> ~(ALL_TABLES \subseteq SetOf(arg.value))
        /\ HasLine(result, DisallowedClosing) <=> HasLine(result, DisallowedOpening)

C14_Witness ==
    /\ BuiltGeneratorInstructions
    /\ SetOf(arg.value) = {"clients"}
    /\ ForbiddenList(result) = <<"commandes", "produits">>

\* the universe tables of which a line of an instruction text gives the
\* name, a column or a relation
Mentions(line) ==
    { t \in ALL_TABLES :
        \/ line = t
        \/ line = TABLE_SCHEMAS[t]
        \/ \E k \in DOMAIN TABLE_RELATIONS :
              line = TABLE_RELATIONS[k].relation /\ t \in TABLE_RELATIONS[k].table_pair
        \/ /\ t = "commandes"
           /\ line \in { "- Les ventes/achats sont dans la table commandes.",
                         "- Le chiffre d'affaires = SUM(montant_total) WHERE statut = 'completee'" } }

\* the positions of a text that belong to its INTERDIT note
InForbiddenList(text, i) ==
    /\ HasLine(text, DisallowedOpening)
    /\ IndexOf(text, DisallowedOpening) <= i
    /\ i <= IndexOf(text, DisallowedClosing)

\* C15: outside the list of forbidden tables, the instructions built for
\* a principal with at least one table give no name, column or relation
\* of a universe table that is not in the allowed list.
C15_OnlyPermittedEnumerated ==
    (pc = "returned" /\ arg.value # <<>>
        /\ arg.fn \in {"build_sql_generator_instructions", "build_sql_security_instructions"}) =>
        \A i \in DOMAIN result :
            ~InForbiddenList(result, i) => Mentions(result[i]) \subseteq SetOf(arg.value)

\* a step of a call of build_sql_generator_instructions: the list is left
\* as it was, and a second call gives the tables and relations of the first
CallLeavesListAndResult ==
    arg.fn = "build_sql_generator_instructions" =>
        /\ arg' = arg
        /\ pc = "returned" =>
              /\ pc' = "returned again"
              /\ TableSection(result') = TableSection(result)
              /\ RelationSection(result') = RelationSection(result)

ClauseKeywords(sql) == { i \in DOMAIN sql : Upper(sql[i]) \in {"FROM", "JOIN"} }

\* C17: extract_table_names returns exactly the universe tables whose name
\* is, once lower-cased, the identifier that directly follows a FROM or a
\* JOIN in any case; other identifiers are dropped, and a text without
\* FROM or JOIN gives the empty set.
C17_ExtractsFromAndJoin ==
    (pc = "returned" /\ arg.fn = "extract_table_names") =>
        LET sql == arg.value
        IN /\ result \subseteq ALL_TABLES
           /\ \A t \in ALL_TABLES :
                 t \in result <=>
                    \E i \in ClauseKeywords(sql) :
                        i < Len(sql) /\ Lower(IdentPrefix(sql[i + 1])) = t
           /\ ClauseKeywords(sql) = {} => result = {}

C17_Witness ==
    /\ pc = "returned"
    /\ arg = [fn |-> "extract_table_names",
              value |-> <<"SELECT", "*", "from", "COMMANDES", "join", "produits">>]
    /\ result = {"commandes", "produits"}

InvalidInput == Strip(question) = <<>> \/ CharLen(Strip(question)) > 1000

CannedMessages ==
    {GREETING_RESPONSE, OFF_TOPIC_RESPONSE, DESTRUCTIVE_RESPONSE, PROMPT_INJECTION_RESPONSE}

\* C18: a question that is empty once trimmed or longer than 1000
\* characters ends in an input error of its own (status 400, one message
\* for each case), never in a canned classification message and never
\* in a pipeline run; a question of exactly 1000 characters is not
\* rejected for its length.
C18_InvalidInputRejectedFirst ==
    /\ InvalidInput => pc \in {"start", "done"}
    /\ (InvalidInput /\ pc = "done") =>
          /\ http.status = 400
          /\ http.response \notin CannedMessages
          /\ http.response = IF Strip(question) = <<>>
                                THEN <<"La question ne peut pas être vide.">>
                                ELSE <<"La question est trop longue.">>
          /\ trace = <<>>
    /\ (CharLen(Strip(question)) = 1000 /\ pc = "done") => http.status # 400

C18_Witness ==
    /\ pc = "done"
    /\ CharLen(Strip(question)) > 1000
    /\ is_greeting(Strip(question))
    /\ http.status = 400

\* a query that execute_sql_readonly may submit: trimmed and upper-cased,
\* it begins with SELECT and holds none of the keywords
Admissible(query) ==
    LET q == Strip(query)
    IN /\ q # <<>>
       /\ Upper(q[1]) = "SELECT"
       /\ \A i \in DOMAIN q : \A k \in DANGEROUS_KEYWORDS : k \notin KeywordsIn(Upper(q[i]))

\* C19: execute_sql_readonly executes a query only if the query, trimmed
\* and upper-cased, begins with SELECT and contains none of the keywords;
\* any other query returns an error value and no connection is opened;
\* and a query is executed only on a connection already set read-only.
C19_ReadonlyBackstop ==
    (pc = "returned" /\ arg.fn = "execute_sql_readonly") =>
        LET ops == result.operations
        IN /\ HasLine(ops, "execute") => Admissible(arg.value.query)
           /\ ~Admissible(arg.value.query) =>
                 /\ ops = <<>>
                 /\ result.returned \in {NotSelect, Forbidden}
           /\ \A i \in DOMAIN ops :
                 ops[i] = "execute" =>
                    \E j \in 1..(i - 1) : ops[j] = "set_session(readonly=True)"

C19_Witness ==
    /\ pc = "returned"
    /\ arg.fn = "execute_sql_readonly"
    /\ arg.value.query = <<"SELECT", "*", "FROM", "clients", ";", "DELETE", "clients">>
    /\ result = [returned |-> Forbidden, operations |-> <<>>]

\* the run is an ordinary one: the review returned the generated statement
\* unchanged and the statement names allowed tables only
OrdinaryRun ==
    /\ allowed_tables # <<>>
    /\ generated # None
    /\ security_text = generated
    /\ ReferencedTables(GeneratedSql) \subseteq SetOf(allowed_tables)

\* the step that ends a run whose execution failed in the database answers
\* with the internal error, and a step that was run is not run again
FailureSurfaced ==
    /\ (OrdinaryRun /\ pc = "Response Formatting" /\ content = <<"ERREUR SQL">> /\ pc' = "done")
          => http'.status = 500
    /\ pc' \in { PipelineSteps[k] : k \in DOMAIN PipelineSteps } => ~InTrace(pc')

\* C20: when the database cannot be reached or refuses the statement
\* during a run, the caller of ask_question receives the generic internal
\* error (status 500), not a refusal and not a normal answer, and no step
\* is called a second time.
C20_FailureIsInternalError == [][FailureSurfaced]_vars

C22_OneAdminByRegistration ==
    /\ Cardinality({ p \in Procs : reg[p].pc = "done" /\ reg[p].role = "admin" }) <= 1
    /\ \A p \in Procs :
          reg[p].pc = "done" /\ reg[p].id # 0 =>
             (reg[p].role = "admin" <=> reg[p].id = 1)

\* C23: a row of the users table is changed only by an admin update
\* request whose caller has the role admin and that is answered 200; an
\* update request of a caller without the role admin is answered 403 and
\* changes no row; login, ask and history change no row.
C23_OnlyAdminChangesRights ==
    /\ arg.wrote =>
          /\ arg.op \in {"update_role", "update_tables"}
          /\ get_current_user(arg.token).role = "admin"
          /\ http.status = 200
    /\ arg.op \in {"update_role", "update_tables"} /\ arg.token.role # "admin" =>
          http.status = 403 /\ ~arg.wrote
    /\ arg.op \in {"login", "ask", "history"} => ~arg.wrote

\* a user asking for the role admin for their own row is refused
C23_Witness ==
    /\ arg.op = "update_role"
    /\ arg.token.role = "user"
    /\ arg.target = arg.token.user_id
    /\ arg.value = <<"admin">>
    /\ http.status = 403
    /\ users[arg.target].role = "user"

\* C24: for every ask request authenticated as admin, the allowed tables
\* passed to the pipeline are clients, produits and commandes, whatever
\* list the token carries and whatever the users table holds for the
\* caller.
C24_AdminGetsAllTables ==
    arg.op = "ask" /\ arg.token.role = "admin" =>
        /\ SetOf(allowed_tables) = ALL_TABLES
        /\ allowed_tables = AUTH_ALL_TABLES

\* an admin whose token carries one table and whose row holds another role
C24_Witness ==
    /\ arg.op = "ask"
    /\ arg.token.role = "admin"
    /\ arg.token.allowed_tables = <<"clients">>
    /\ users[arg.token.user_id].role = "user"
    /\ allowed_tables = AUTH_ALL_TABLES

\* C29: the role and the allowed tables enforced for a request are those
\* carried by its token, with the role admin mapped to all the tables;
\* the users table is not read, so a token issued before an admin changed
\* the row of its user is enforced as issued.
C29_TokenRightsEnforced ==
    /\ arg.op = "ask" =>
          allowed_tables = IF arg.token.role = "admin" THEN AUTH_ALL_TABLES
                                                       ELSE arg.token.allowed_tables
    /\ arg.op \in {"update_role", "update_tables"} =>
          (http.status = 403 <=> arg.token.role # "admin")

\* a token issued with all the tables, used after the row was restricted
C29_Witness ==
    /\ arg.op = "ask"
    /\ arg.token.role = "user"
    /\ arg.token.allowed_tables = AUTH_ALL_TABLES
    /\ users[arg.token.user_id].allowed_tables = <<"clients">>
    /\ allowed_tables = AUTH_ALL_TABLES

\* C26: after any sequence of registrations and admin updates every row
\* of the users table has the role user or admin and a non-empty list of
\* allowed tables taken from clients, produits and commandes; an update
\* by an admin with an invalid role, an unknown table name or an empty
\* list is answered 400 and changes no row.
C26_StoredRightsValid ==
    /\ \A u \in DOMAIN users :
          /\ users[u].role \in {"user", "admin"}
          /\ users[u].allowed_tables # <<>>
          /\ SetOf(users[u].allowed_tables) \subseteq ALL_TABLES
    /\ /\ arg.op = "update_role"
       /\ arg.token.role = "admin"
       /\ arg.value[1] \notin {"user", "admin"}
       => http.status = 400 /\ ~arg.wrote
    /\ /\ arg.op = "update_tables"
       /\ arg.token.role = "admin"
       /\ (arg.value = <<>> \/ ~(SetOf(arg.value) \subseteq ALL_TABLES))
       => http.status = 400 /\ ~arg.wrote

\* an admin sending the empty list for the row of an existing user
C26_Witness ==
    /\ arg.op = "update_tables"
    /\ arg.token.role = "admin"
    /\ arg.value = <<>>
    /\ arg.target \in DOMAIN users
    /\ users[arg.target].allowed_tables = <<"clients">>
    /\ http.status = 400

\* C30: once the first user is registered, the users table holds at least
\* one row with the role admin after any sequence of admin role updates;
\* the request of an admin to give their own row the role user is
\* answered 400 and changes no row.  Registrations that were all given
\* the role admin at once are left aside.
C30_AdminRemains ==
    /\ /\ users # <<>>
       /\ \A p \in Procs : reg[p].role = "admin" => reg[p].id = 1
       => \E u \in DOMAIN users : users[u].role = "admin"
    /\ /\ arg.op = "update_role"
       /\ arg.token.role = "admin"
       /\ arg.target = arg.token.user_id
       /\ arg.value = <<"user">>
       => http.status = 400 /\ ~arg.wrote

\* C27: on every accepted run, the SQL text handed to the execution stage
\* is the text on which the table check of the gate was performed, and
\* that text is returned to the caller as sql_query.  (Stated for the
\* runs in which the generator returned a statement; the texts are
\* compared without their code fences.)
C27_ExecutedIsCheckedAndReturned ==
    executed # None /\ gate.verdict = "accepted" /\ generated # <<>> =>
        /\ extract_sql(executed) = extract_sql(generated)
        /\ pc = "done" /\ http.status = 200 => http.sql_query = extract_sql(generated)

\* C28: on every text, is_off_topic, is_destructive and
\* is_prompt_injection are true exactly when TopicGuardrail,
\* SQLInjectionGuardrail and PromptInjectionGuardrail raise, so a question
\* for which the pre-checks of ask_question return no canned message
\* raises in none of the pre_hooks of intent_agent.
C28_PreChecksMatchGuardrails ==
    arg.fn = "guardrails" /\ pc # "call" =>
        /\ result.is_off_topic = result.TopicGuardrail
        /\ result.is_destructive = result.SQLInjectionGuardrail
        /\ result.is_prompt_injection = result.PromptInjectionGuardrail
        /\ result.PreCheck = None => result.IntentPreHooks = None

\* an off-topic word written with a capital is caught on both sides
C28_Witness ==
    /\ arg.fn = "guardrails"
    /\ arg.value = <<"combien", "Météo">>
    /\ pc = "returned"
    /\ result.is_off_topic
    /\ result.TopicGuardrail
    /\ result.IntentPreHooks = OFF_TOPIC_RESPONSE

\* C25: the redaction of OutputSafetyGuardrail never raises and only
\* replaces what matches: a text without an email address and without a
\* phone number is left as it is, and in the text it leaves behind
\* neither the email pattern nor the phone pattern is found.
C25_RedactionLeavesNoMatch ==
    arg.fn = "OutputSafetyGuardrail" /\ pc # "call" =>
        /\ ~result.raised
        /\ ~EmailSearch(arg.value) /\ ~PhoneSearch(arg.value) =>
              result.input_content = arg.value
        /\ ~EmailSearch(result.input_content)
        /\ ~PhoneSearch(result.input_content)

====
